---- MODULE Spec2Model ----
(***************************************************************************)
(* A model of the estimation core of src/server.ts: the Poisson sampler    *)
(* poisson, the Monte Carlo loop simulateMatch and the /api/analysis       *)
(* handler (rates, two simulations per match, synthetic odds, edge, EV,    *)
(* filter and cap).                                                        *)
(*                                                                         *)
(* Numbers.  Up to the value simulateMatch returns, a JavaScript number is  *)
(* modelled as an exact rational n/d in lowest terms, or one of the        *)
(* IEEE-754 specials NaN, +Infinity and -Infinity: the counts, the draws   *)
(* of the grid and their products are exact in doubles, and the quotient   *)
(* successCount / iterations is kept as the fraction that determines it.   *)
(* From the mock odds on (oddAvg, bestOdd, probImplied, edge, ev and the   *)
(* filter) numbers are binary64 values and every operation rounds to       *)
(* nearest, ties to even, as the engine does.  The sign of zero is not     *)
(* modelled.                                                               *)
(*                                                                         *)
(* Randomness.  Math.random() is the engine's hidden generator: a stream   *)
(* of values in [0,1) that every call advances.  The stream is modelled as *)
(* a tape of Period values of the grid U, read cyclically; the tape is     *)
(* chosen arbitrarily in Init and the number of calls made so far is part  *)
(* of the state.                                                           *)
(***************************************************************************)
EXTENDS Integers, Sequences, FiniteSets, TLC

\* ------------------------------------------------------------------ bounds
\* Length of the cyclic tape of uniform draws.
Period == 3
\* Largest iteration count passed explicitly to simulateMatch.
MaxIter == 2
\* The iteration count the handler uses (the default of simulateMatch,
\* 20000 in the source, scaled down).
Iterations == 2
\* The query of the handler returns 0..SmallBatch rows, or MaxResults..MaxBatch.
SmallBatch == 2
MaxBatch == 51
\* The iteration count behind the simulation results OddsSpec draws (20000 in
\* the source, scaled down).
OddsIterations == 20

\* ------------------------------------------------------- program constants
\* slice(0, 50)
MaxResults == 50
\* Denominator of the fixed-point values of Math.exp.
Scale == 2^16

\* ----------------------------------------------------------------- numbers
Abs(x) == IF x < 0 THEN -x ELSE x

Sgn(x) == IF x < 0 THEN -1 ELSE IF x > 0 THEN 1 ELSE 0

RECURSIVE GCD(_, _)
GCD(a, b) == IF b = 0 THEN a ELSE GCD(b, a % b)

\* The finite number n/d (d # 0), in lowest terms with a positive denominator.
Fin(n, d) ==
  LET g == GCD(Abs(n), Abs(d))
      s == Sgn(d)
  IN [k |-> "fin", n |-> (s * n) \div g, d |-> Abs(d) \div g]

NaN == [k |-> "nan", n |-> 0, d |-> 1]

\* +Infinity (s = 1) or -Infinity (s = -1).
Inf(s) == [k |-> "inf", n |-> s, d |-> 1]

IsNaN(a) == a.k = "nan"

IsFinite(a) == a.k = "fin"

IsZero(a) == a.k = "fin" /\ a.n = 0

\* a * b
Mul(a, b) ==
  IF IsNaN(a) \/ IsNaN(b) THEN NaN
  ELSE IF a.k = "inf" \/ b.k = "inf"
       THEN IF IsZero(a) \/ IsZero(b) THEN NaN ELSE Inf(Sgn(a.n) * Sgn(b.n))
       ELSE Fin(a.n * b.n, a.d * b.d)

\* a / b
Div(a, b) ==
  IF IsNaN(a) \/ IsNaN(b) THEN NaN
  ELSE IF a.k = "inf"
       THEN IF b.k = "inf" THEN NaN
            ELSE Inf(a.n * (IF b.n < 0 THEN -1 ELSE 1))
       ELSE IF b.k = "inf" THEN Fin(0, 1)
       ELSE IF b.n = 0
            THEN IF a.n = 0 THEN NaN ELSE Inf(Sgn(a.n))
            ELSE Fin(a.n * b.d, a.d * b.n)

\* a + b
Add(a, b) ==
  IF IsNaN(a) \/ IsNaN(b) THEN NaN
  ELSE IF a.k = "inf"
       THEN IF b.k = "inf" /\ b.n # a.n THEN NaN ELSE a
       ELSE IF b.k = "inf" THEN b
       ELSE Fin(a.n * b.d + b.n * a.d, a.d * b.d)

\* -a
Neg(a) == IF IsNaN(a) THEN NaN ELSE [a EXCEPT !.n = -a.n]

\* a - b
Sub(a, b) == Add(a, Neg(b))

\* a > b (false when either side is NaN)
Gt(a, b) ==
  IF IsNaN(a) \/ IsNaN(b) THEN FALSE
  ELSE IF a.k = "inf" THEN a.n = 1 /\ ~(b.k = "inf" /\ b.n = 1)
  ELSE IF b.k = "inf" THEN b.n = -1
  ELSE a.n * b.d > b.n * a.d

\* a >= b (false when either side is NaN)
Ge(a, b) ==
  IF IsNaN(a) \/ IsNaN(b) THEN FALSE
  ELSE IF a.k = "inf" THEN a.n = 1 \/ (b.k = "inf" /\ b.n = -1)
  ELSE IF b.k = "inf" THEN b.n = -1
  ELSE a.n * b.d >= b.n * a.d

\* An integer as a number.
Num(x) == Fin(x, 1)

\* A decimal literal given in hundredths: Dec(45) is 0.45.
Dec(h) == Fin(h, 100)

\* --------------------------------------------------------- large naturals
\* A natural number as the sequence of its digits in base Radix, least
\* significant first, without leading zero digits; zero is <<>>.
Radix == 2^14
DigitBits == 14

Digit(a, j) == IF j <= Len(a) THEN a[j] ELSE 0

RECURSIVE Trim(_)
Trim(a) ==
  IF a = <<>> THEN a
  ELSE IF a[Len(a)] = 0 THEN Trim(SubSeq(a, 1, Len(a) - 1)) ELSE a

RECURSIVE NatOf(_)
NatOf(x) == IF x = 0 THEN <<>> ELSE <<x % Radix>> \o NatOf(x \div Radix)

RECURSIVE AddFrom(_, _, _, _)
AddFrom(a, b, j, c) ==
  IF j > Len(a) /\ j > Len(b)
  THEN IF c = 0 THEN <<>> ELSE <<c>>
  ELSE <<(Digit(a, j) + Digit(b, j) + c) % Radix>>
         \o AddFrom(a, b, j + 1, (Digit(a, j) + Digit(b, j) + c) \div Radix)

\* a + b
AddN(a, b) == AddFrom(a, b, 1, 0)

RECURSIVE SubFrom(_, _, _, _)
SubFrom(a, b, j, c) ==
  IF j > Len(a) THEN <<>>
  ELSE <<(a[j] - Digit(b, j) - c) % Radix>>
         \o SubFrom(a, b, j + 1, IF a[j] - Digit(b, j) - c < 0 THEN 1 ELSE 0)

\* a - b, for a >= b
SubN(a, b) == Trim(SubFrom(a, b, 1, 0))

RECURSIVE CmpFrom(_, _, _)
CmpFrom(a, b, j) ==
  IF j = 0 THEN 0
  ELSE IF a[j] > b[j] THEN 1
  ELSE IF a[j] < b[j] THEN -1
  ELSE CmpFrom(a, b, j - 1)

\* -1, 0 or 1 as a < b, a = b or a > b
CmpN(a, b) ==
  IF Len(a) > Len(b) THEN 1
  ELSE IF Len(a) < Len(b) THEN -1
  ELSE CmpFrom(a, b, Len(a))

RECURSIVE MulDigitFrom(_, _, _, _)
MulDigitFrom(a, x, j, c) ==
  IF j > Len(a)
  THEN IF c = 0 THEN <<>> ELSE <<c>>
  ELSE <<(a[j] * x + c) % Radix>>
         \o MulDigitFrom(a, x, j + 1, (a[j] * x + c) \div Radix)

\* a * x for one digit x
MulDigit(a, x) == IF x = 0 THEN <<>> ELSE MulDigitFrom(a, x, 1, 0)

\* a * Radix^n
ShiftDigits(a, n) == IF a = <<>> THEN a ELSE [j \in 1..n |-> 0] \o a

RECURSIVE MulFrom(_, _, _)
MulFrom(a, b, j) ==
  IF j > Len(b) THEN <<>>
  ELSE AddN(MulDigit(a, b[j]), ShiftDigits(MulFrom(a, b, j + 1), 1))

\* a * b
MulN(a, b) == MulFrom(a, b, 1)

\* a * 2^n
ShlN(a, n) == ShiftDigits(MulDigit(a, 2^(n % DigitBits)), n \div DigitBits)

RECURSIVE DivDigitFrom(_, _, _, _)
DivDigitFrom(a, x, j, r) ==
  IF j = 0 THEN <<>>
  ELSE Append(DivDigitFrom(a, x, j - 1, (r * Radix + a[j]) % x),
              (r * Radix + a[j]) \div x)

\* floor(a / 2^n)
ShrN(a, n) ==
  IF n \div DigitBits >= Len(a) THEN <<>>
  ELSE Trim(DivDigitFrom(SubSeq(a, n \div DigitBits + 1, Len(a)),
                         2^(n % DigitBits), Len(a) - n \div DigitBits, 0))

RECURSIVE Bits(_)
Bits(x) == IF x = 0 THEN 0 ELSE 1 + Bits(x \div 2)

\* The number of binary digits of a.
BitLen(a) ==
  IF a = <<>> THEN 0 ELSE DigitBits * (Len(a) - 1) + Bits(a[Len(a)])

RECURSIVE LowZeros(_)
LowZeros(x) == IF x % 2 = 1 THEN 0 ELSE 1 + LowZeros(x \div 2)

RECURSIVE TrailingZeros(_, _)
TrailingZeros(a, j) ==
  IF a[j] = 0 THEN DigitBits + TrailingZeros(a, j + 1) ELSE LowZeros(a[j])

Least(x, y) == IF x < y THEN x ELSE y

\* Long division, one digit of the quotient at a time: the digit is guessed
\* from the leading digits of the remainder r and of the divisor b, then
\* lowered until b times the digit fits in r.
QuotientGuess(b, r) ==
  Least((Digit(r, Len(b) + 1) * Radix + Digit(r, Len(b))) \div b[Len(b)],
        Radix - 1)

RECURSIVE QuotientDigit(_, _, _)
QuotientDigit(b, r, q) ==
  IF CmpN(MulDigit(b, q), r) > 0 THEN QuotientDigit(b, r, q - 1) ELSE q

RECURSIVE DivFrom(_, _, _, _)
DivPut(low, q) == [q |-> Append(low.q, q), r |-> low.r]

DivTake(a, b, j, r, q) ==
  DivPut(DivFrom(a, b, j - 1, SubN(r, MulDigit(b, q))), q)

DivStep(a, b, j, r) ==
  DivTake(a, b, j, r, QuotientDigit(b, r, QuotientGuess(b, r)))

DivFrom(a, b, j, r) ==
  IF j = 0 THEN [q |-> <<>>, r |-> r]
  ELSE DivStep(a, b, j, Trim(<<a[j]>> \o r))

DivTrim(d) == [q |-> Trim(d.q), r |-> d.r]

DivAll(a, b) == DivTrim(DivFrom(a, b, Len(a), <<>>))

\* Both operands scaled so that the leading digit of the divisor is at
\* least Radix / 2, which keeps the guesses within 2 of the digit.
DivScaled(a, b, sh) == DivAll(ShlN(a, sh), ShlN(b, sh))

\* Quotient and remainder of a by b # 0 (the remainder is scaled, and zero
\* exactly when b divides a).
DivModN(a, b) == DivScaled(a, b, DigitBits * Len(b) - BitLen(b))

\* ------------------------------------------------------------- binary64
\* An IEEE-754 binary64 value: s * m * 2^e with s = 1 or -1 and m odd, of at
\* most Precision bits; or zero (m = 0), NaN, +Infinity or -Infinity.  Every
\* operation returns the double nearest to the exact result, ties to even.
\* The sign of zero, overflow and subnormal values are not modelled.
Precision == 53

ZeroD == [k |-> "fin", s |-> 1, m |-> <<>>, e |-> 0]
NaND == [k |-> "nan", s |-> 1, m |-> <<>>, e |-> 0]
InfD(s) == [k |-> "inf", s |-> s, m |-> <<>>, e |-> 0]

CanonBy(s, m, e, tz) ==
  [k |-> "fin", s |-> s, m |-> ShrN(m, tz), e |-> e + tz]

\* s * m * 2^e with the trailing zero bits of m moved into the exponent.
Canon(s, m, e) ==
  IF m = <<>> THEN ZeroD ELSE CanonBy(s, m, e, TrailingZeros(m, 1))

\* q is the kept part; c compares the part cut off with half a unit of q.
RoundDecide(s, q, e, c, sticky) ==
  Canon(s,
        IF c > 0 \/ (c = 0 /\ (sticky \/ q[1] % 2 = 1))
        THEN AddN(q, <<1>>) ELSE q,
        e)

RoundCut(s, n, e, sticky, sh, q) ==
  RoundDecide(s, q, e + sh, CmpN(SubN(n, ShlN(q, sh)), ShlN(<<1>>, sh - 1)),
              sticky)

\* The double nearest to s * (n + t) * 2^e, ties to even, where t is 0, or
\* some value strictly between 0 and 1 when sticky; len is the number of
\* bits of n.
RoundBits(s, n, e, sticky, len) ==
  IF len <= Precision THEN Canon(s, n, e)
  ELSE RoundCut(s, n, e, sticky, len - Precision, ShrN(n, len - Precision))

Round(s, n, e, sticky) == RoundBits(s, n, e, sticky, BitLen(n))

IsNaND(a) == a.k = "nan"
IsZeroD(a) == a.k = "fin" /\ a.m = <<>>

\* a * b
MulD(a, b) ==
  IF IsNaND(a) \/ IsNaND(b) THEN NaND
  ELSE IF a.k = "inf" \/ b.k = "inf"
       THEN IF IsZeroD(a) \/ IsZeroD(b) THEN NaND ELSE InfD(a.s * b.s)
       ELSE Round(a.s * b.s, MulN(a.m, b.m), a.e + b.e, FALSE)

\* The rounded quotient, from the integer quotient and remainder d.
QuotientD(s, d, e) == Round(s, d.q, e, d.r # <<>>)

QuotientBy(a, b, sh) ==
  QuotientD(a.s * b.s, DivModN(ShlN(a.m, sh), b.m), a.e - b.e - sh)

\* a / b: the quotient of the mantissas is taken with Precision + 2 bits at
\* least, and the remainder says whether it is exact.
DivD(a, b) ==
  IF IsNaND(a) \/ IsNaND(b) THEN NaND
  ELSE IF a.k = "inf"
       THEN IF b.k = "inf" THEN NaND ELSE InfD(a.s * b.s)
       ELSE IF b.k = "inf" THEN ZeroD
       ELSE IF IsZeroD(b)
            THEN IF IsZeroD(a) THEN NaND ELSE InfD(a.s)
            ELSE IF IsZeroD(a) THEN ZeroD
            ELSE QuotientBy(a, b, BitLen(b.m) - BitLen(a.m) + Precision + 2)

\* sa * ma + sb * mb, as a sign and a magnitude.
SignedSum(sa, ma, sb, mb) ==
  IF sa = sb THEN [s |-> sa, m |-> AddN(ma, mb)]
  ELSE IF CmpN(ma, mb) >= 0 THEN [s |-> sa, m |-> SubN(ma, mb)]
  ELSE [s |-> sb, m |-> SubN(mb, ma)]

SumD(sum, e) == Round(sum.s, sum.m, e, FALSE)

\* a + b: the exact sum of the two values on their common exponent, rounded.
AddD(a, b) ==
  IF IsNaND(a) \/ IsNaND(b) THEN NaND
  ELSE IF a.k = "inf"
       THEN IF b.k = "inf" /\ b.s # a.s THEN NaND ELSE a
       ELSE IF b.k = "inf" THEN b
       ELSE IF IsZeroD(a) THEN b
       ELSE IF IsZeroD(b) THEN a
       ELSE SumD(SignedSum(a.s, ShlN(a.m, a.e - Least(a.e, b.e)),
                           b.s, ShlN(b.m, b.e - Least(a.e, b.e))),
                 Least(a.e, b.e))

\* -a
NegD(a) == IF a.k = "nan" \/ IsZeroD(a) THEN a ELSE [a EXCEPT !.s = -a.s]

\* a - b
SubD(a, b) == AddD(a, NegD(b))

IsPositiveD(a) == a.k = "fin" /\ a.m # <<>> /\ a.s = 1

\* a > b (false when either side is NaN)
GtD(a, b) ==
  IF IsNaND(a) \/ IsNaND(b) THEN FALSE
  ELSE IF a.k = "inf" THEN a.s = 1 /\ ~(b.k = "inf" /\ b.s = 1)
  ELSE IF b.k = "inf" THEN b.s = -1
  ELSE IsPositiveD(SubD(a, b))

\* a >= b (false when either side is NaN)
GeD(a, b) ==
  IF IsNaND(a) \/ IsNaND(b) THEN FALSE
  ELSE IF a.k = "inf" THEN a.s = 1 \/ (b.k = "inf" /\ b.s = -1)
  ELSE IF b.k = "inf" THEN b.s = -1
  ELSE ~IsPositiveD(SubD(b, a))

\* The integer x as a double (|x| < 2^31).
IntD(x) == Canon(IF x < 0 THEN -1 ELSE 1, NatOf(Abs(x)), 0)

\* The double nearest to n / d
D(n, d) == DivD(IntD(n), IntD(d))

\* 2^e as a double.
Pow2D(e) == [k |-> "fin", s |-> 1, m |-> <<1>>, e |-> e]

\* The double that the division n / d of two integers returned, for the
\* number q that stands for its exact quotient.
Double(q) ==
  IF q.k = "nan" THEN NaND
  ELSE IF q.k = "inf" THEN InfD(q.n)
  ELSE D(q.n, q.d)

\* -------------------------------------------------------------- Math.exp
\* floor(e^(-lambda) * Scale) for the finite rates lambda = <<n, d>> the
\* model uses.  Every accumulator value p of poisson is a multiple of
\* 1/Scale and e^(-lambda) is irrational for lambda # 0, so p > e^(-lambda)
\* exactly when p > floor(e^(-lambda) * Scale) / Scale.
ExpTable ==
  <<-1, 1>> :> 178145 @@ <<-11, 20>> :> 113590 @@ <<-9, 20>> :> 102780 @@
  <<0, 1>> :> 65536 @@ <<9, 20>> :> 41787 @@ <<27, 50>> :> 38190 @@
  <<11, 20>> :> 37810 @@ <<63, 100>> :> 34903 @@ <<33, 50>> :> 33872 @@
  <<18, 25>> :> 31899 @@ <<77, 100>> :> 30344 @@ <<22, 25>> :> 27183 @@
  <<18, 5>> :> 1790 @@ <<4, 1>> :> 1200 @@ <<22, 5>> :> 804 @@
  <<9, 2>> :> 728 @@ <<5, 1>> :> 441 @@ <<11, 2>> :> 267

\* Math.exp(-lambda)
ExpNeg(lambda) ==
  IF IsNaN(lambda) THEN NaN
  ELSE IF lambda.k = "inf" THEN (IF lambda.n = 1 THEN Fin(0, 1) ELSE Inf(1))
  ELSE Fin(ExpTable[<<lambda.n, lambda.d>>], Scale)

\* ----------------------------------------------------------- Math.random
\* The values a draw can take, all in [0,1).
U == {Fin(0, 1), Fin(1, 4), Fin(1, 2)}

Tapes == [1..Period -> U]

\* Math.random(): the next value of the stream, and the advanced stream.
Random(r) ==
  [val |-> r.tape[(r.calls % Period) + 1],
   rng |-> [r EXCEPT !.calls = r.calls + 1]]

\* ---------------------------------------------------------------- poisson
\* PoissonLoop returning k instead of k - 1.
RECURSIVE PoissonLoopReturnsK(_, _, _, _)
PoissonLoopReturnsK(L, p, k, r) ==
  LET draw == Random(r)
      k1 == k + 1
      p1 == Mul(p, draw.val)
  IN IF Gt(p1, L) THEN PoissonLoopReturnsK(L, p1, k1, draw.rng)
     ELSE [val |-> k1, rng |-> draw.rng]

\* The do-while loop of poisson: one pass is k++, p *= Math.random().
RECURSIVE PoissonLoop(_, _, _, _)
PoissonLoop(L, p, k, r) ==
  LET draw == Random(r)
      k1 == k + 1
      p1 == Mul(p, draw.val)
  IN IF Gt(p1, L) THEN PoissonLoop(L, p1, k1, draw.rng)
     ELSE [val |-> k1 - 1, rng |-> draw.rng]

poisson(lambda, r) == PoissonLoop(ExpNeg(lambda), Num(1), 0, r)

\* ---------------------------------------------------------- simulateMatch
\* TeamYWinsHalf with a drawn half counted as won.
TeamYWinsHalfTies(isTeamYHome, h1_home, h1_away, h2_home, h2_away) ==
  IF isTeamYHome
  THEN (h1_home >= h1_away) \/ (h2_home >= h2_away)
  ELSE (h1_away >= h1_home) \/ (h2_away >= h2_home)

\* Criteria 3: Team Y wins at least one half.
TeamYWinsHalf(isTeamYHome, h1_home, h1_away, h2_home, h2_away) ==
  IF isTeamYHome
  THEN (h1_home > h1_away) \/ (h2_home > h2_away)
  ELSE (h1_away > h1_home) \/ (h2_away > h2_home)

\* poisson called once for each rate of the list, in order, on the same
\* stream: the values returned and the stream left.
RECURSIVE PoissonEach(_, _, _)
PoissonNext(rest, vals, d) == PoissonEach(rest, Append(vals, d.val), d.rng)

PoissonEach(lambdas, vals, r) ==
  IF lambdas = <<>> THEN [vals |-> vals, rng |-> r]
  ELSE PoissonNext(Tail(lambdas), vals, poisson(Head(lambdas), r))

\* The six draws of one pass: h1_home, h1_away, h2_home, h2_away and the
\* two corner counts.
Draws(c, r) ==
  PoissonEach(<<Mul(c.homeExpG, Dec(45)), Mul(c.awayExpG, Dec(45)),
                Mul(c.homeExpG, Dec(55)), Mul(c.awayExpG, Dec(55)),
                c.homeExpC, c.awayExpC>>, <<>>, r)

\* The four criteria of one pass, evaluated on its draws.
Criteria(isTeamYHome, h1_home, h1_away, h2_home, h2_away, corners) ==
  LET u35_h1 == Gt(Dec(350), Num(h1_home + h1_away))
      u35_h2 == Gt(Dec(350), Num(h2_home + h2_away))
      teamYWinsHalf ==
        TeamYWinsHalf(isTeamYHome, h1_home, h1_away, h2_home, h2_away)
      o55_corners == Gt(Num(corners), Dec(550))
  IN u35_h1 /\ u35_h2 /\ teamYWinsHalf /\ o55_corners

\* The locals of one pass, from its six draws d.
Pass(c, d) ==
  [h1_home |-> d.vals[1], h1_away |-> d.vals[2],
   h2_home |-> d.vals[3], h2_away |-> d.vals[4],
   corners |-> d.vals[5] + d.vals[6],
   success |-> Criteria(c.isTeamYHome, d.vals[1], d.vals[2], d.vals[3],
                        d.vals[4], d.vals[5] + d.vals[6]),
   rng |-> d.rng]

\* The body of one pass of the for loop: six draws, then the four criteria.
IterBody(c, r) == Pass(c, Draws(c, r))

\* SimResult with the operands of the division swapped.
SimResultSwapped(successCount, iterations) == Div(Num(iterations), Num(successCount))

\* The value simulateMatch returns once the loop has ended.
SimResult(successCount, iterations) == Div(Num(successCount), Num(iterations))

\* The loop state [i, successCount, rng] after a pass with locals b.
Counted(st, b) ==
  [i |-> st.i + 1,
   successCount |-> IF b.success THEN st.successCount + 1 ELSE st.successCount,
   rng |-> b.rng]

\* The for loop of simulateMatch from a loop state on, and the value returned.
RECURSIVE SimLoop(_, _)
SimLoop(c, st) ==
  IF st.i < c.iterations
  THEN SimLoop(c, Counted(st, IterBody(c, st.rng)))
  ELSE [val |-> SimResult(st.successCount, c.iterations), rng |-> st.rng]

simulateMatch(homeExpG, awayExpG, homeExpC, awayExpC, isTeamYHome, iterations, r) ==
  SimLoop([homeExpG |-> homeExpG, awayExpG |-> awayExpG,
           homeExpC |-> homeExpC, awayExpC |-> awayExpC,
           isTeamYHome |-> isTeamYHome, iterations |-> iterations],
          [i |-> 0, successCount |-> 0, rng |-> r])

\* ------------------------------------------------- /api/analysis handler
\* IsHomeBetter with a strict comparison: a tie goes to the away side.
IsHomeBetterStrict(probHomeY, probAwayY) == Gt(probHomeY, probAwayY)

\* const isHomeBetter = probHomeY >= probAwayY
IsHomeBetter(probHomeY, probAwayY) == Ge(probHomeY, probAwayY)

\* The literals of the mock odds, as the doubles they denote.
OneD == IntD(1)

Lit080 == D(8, 10)

Lit110 == D(11, 10)

\* MockOdds with edge and ev computed from oddAvg instead of bestOdd.
MockOddsFromAvg(probModel) ==
  LET p == Double(probModel)
      oddAvg == DivD(OneD, MulD(p, Lit080))
      bestOdd == MulD(oddAvg, Lit110)
      probImplied == DivD(OneD, oddAvg)
      edge == SubD(p, probImplied)
      ev == SubD(MulD(p, oddAvg), OneD)
  IN [oddAvg |-> oddAvg, bestOdd |-> bestOdd, probImplied |-> probImplied,
      edge |-> edge, ev |-> ev]

\* MockOdds with the bookmaker's margin added to the probability instead of
\* multiplying it: oddAvg = 1 / (probModel + 0.2).
MockOddsAddedMargin(probModel) ==
  LET p == Double(probModel)
      oddAvg == DivD(OneD, AddD(p, D(2, 10)))
      bestOdd == MulD(oddAvg, Lit110)
      probImplied == DivD(OneD, bestOdd)
      edge == SubD(p, probImplied)
      ev == SubD(MulD(p, bestOdd), OneD)
  IN [oddAvg |-> oddAvg, bestOdd |-> bestOdd, probImplied |-> probImplied,
      edge |-> edge, ev |-> ev]

\* The mock odds and what is derived from them: oddAvg, bestOdd, probImplied,
\* edge and ev, in double arithmetic.  probModel is the quotient
\* successCount / iterations that simulateMatch returned, given as the
\* fraction; p is the double that division produced.
MockOdds(probModel) ==
  LET p == Double(probModel)
      oddAvg == DivD(OneD, MulD(p, Lit080))
      bestOdd == MulD(oddAvg, Lit110)
      probImplied == DivD(OneD, bestOdd)
      edge == SubD(p, probImplied)
      ev == SubD(MulD(p, bestOdd), OneD)
  IN [oddAvg |-> oddAvg, bestOdd |-> bestOdd, probImplied |-> probImplied,
      edge |-> edge, ev |-> ev]

\* The four rates of a match: league averages plus random variance.
Rates(r) ==
  LET u1 == Random(r)
      u2 == Random(u1.rng)
      u3 == Random(u2.rng)
      u4 == Random(u3.rng)
  IN [homeExpG |-> Add(Dec(120), Mul(u1.val, Dec(80))),
      awayExpG |-> Add(Dec(100), Mul(u2.val, Dec(80))),
      homeExpC |-> Add(Dec(450), Mul(u3.val, Num(2))),
      awayExpC |-> Add(Dec(400), Mul(u4.val, Num(2))),
      rng |-> u4.rng]

\* probHomeY, probAwayY and the stream left, once both simulations are done.
BothSimulations(simHome, simAway) ==
  [probHomeY |-> simHome.val, probAwayY |-> simAway.val, rng |-> simAway.rng]

\* The simulation with the away side as team Y, after the one for the home
\* side.
SimulateAway(m, simHome) ==
  BothSimulations(simHome,
    simulateMatch(m.homeExpG, m.awayExpG, m.homeExpC, m.awayExpC, FALSE,
                  Iterations, simHome.rng))

\* The two simulations of a match with rates m: the home side as team Y,
\* then the away side.
Simulations(m) ==
  SimulateAway(m,
    simulateMatch(m.homeExpG, m.awayExpG, m.homeExpC, m.awayExpC, TRUE,
                  Iterations, m.rng))

\* The record the callback returns.  The pass-through fields of the row
\* (team and league names, date) are left out.  probModel is reported as the
\* fraction successCount / iterations; comparing the fraction with 0.15 is
\* comparing the doubles, since the division and the literal both round to
\* the nearest double.
Assessment(id, probHomeY, probAwayY) ==
  LET isHomeBetter == IsHomeBetter(probHomeY, probAwayY)
      probModel == IF isHomeBetter THEN probHomeY ELSE probAwayY
      o == MockOdds(probModel)
  IN [id |-> id, probModel |-> probModel, oddAvg |-> o.oddAvg,
      bestOdd |-> o.bestOdd, probImplied |-> o.probImplied,
      edge |-> o.edge, ev |-> o.ev,
      confidence |-> IF Gt(probModel, Dec(15)) THEN "High" ELSE "Medium",
      isTeamYHome |-> isHomeBetter]

\* What the callback leaves: the record it returns, its two probabilities
\* and the stream.
Analyzed(id, sims) ==
  [assessment |-> Assessment(id, sims.probHomeY, sims.probAwayY),
   locals |-> [probHomeY |-> sims.probHomeY, probAwayY |-> sims.probAwayY],
   rng |-> sims.rng]

\* The callback of matches.map for the row with this id: the rates, the two
\* simulations, the choice of orientation, the mock odds, edge and EV.
AnalyzeOne(id, r) == Analyzed(id, Simulations(Rates(r)))

\* s.slice(0, n)
Slice(s, n) == SubSeq(s, 1, IF Len(s) < n THEN Len(s) ELSE n)

\* Filtered without the filter: only the slice.
FilteredNoFilter(analyzed) == Slice(analyzed, MaxResults)

\* analyzedMatches.filter(m => m.ev > 0).slice(0, 50)
Filtered(analyzed) ==
  Slice(SelectSeq(analyzed, LAMBDA m : GtD(m.ev, ZeroD)), MaxResults)

\* Response when an assessment without a finite EV makes the whole request
\* fail.
ResponseAborting(analyzed) ==
  IF \E j \in 1..Len(analyzed) : ~IsFinite(analyzed[j].ev)
  THEN [status |-> 500, body |-> <<>>]
  ELSE [status |-> 200, body |-> Filtered(analyzed)]

\* What the handler sends once the map is over: res.json(filtered).
Response(analyzed) == [status |-> 200, body |-> Filtered(analyzed)]

\* ------------------------------------------------------------------ state
VARIABLES
  rng,            \* the stream behind Math.random: [tape, calls]
  pc,             \* "idle", "poisson", "sim", "simDone", "map", "responded"
  pois,           \* the latest direct call of poisson: [lambda, val, draws]
  call,           \* the arguments of the simulateMatch call in progress
  i,              \* loop variable of simulateMatch
  successCount,   \* successCount of simulateMatch
  iter,           \* the locals of the latest pass of the loop
  result,         \* what the simulateMatch call returned
  prevResult,     \* what the previous call with the same arguments returned
  runs,           \* number of simulateMatch calls made with these arguments
  matches,        \* the ids of the rows the query of the handler returned
  analyzedMatches,\* the assessments the map has produced so far
  locals,         \* probHomeY and probAwayY of each callback of the map
  res             \* the response of the handler: [status, body]

simVars == <<pois, call, i, successCount, iter, result, prevResult, runs>>

handlerVars == <<matches, analyzedMatches, locals, res>>

vars == <<rng, pc, pois, call, i, successCount, iter, result, prevResult, runs,
          matches, analyzedMatches, locals, res>>

\* A value that is not there yet.
None == [k |-> "none", n |-> 0, d |-> 1]

\* The rates the calls of the model pass to poisson and simulateMatch.
ValidGoalRates == {Dec(160), Num(8)}

ValidCornerRates == {Num(5)}

InvalidRates == {NaN, Num(-1), Num(0)}

PoissonRates ==
  {NaN, Inf(-1), Num(-1), Num(0), Dec(45), Dec(72), Dec(360), Num(5)}

\* Argument lists of simulateMatch: the four rates valid, or one rate of
\* a valid list replaced by an invalid value.
SimArgs ==
  LET Valid == [homeExpG : ValidGoalRates, awayExpG : ValidGoalRates,
                homeExpC : ValidCornerRates, awayExpC : ValidCornerRates,
                isTeamYHome : BOOLEAN, iterations : 0..MaxIter]
      Base == {c \in Valid : c.homeExpG = Dec(160) /\ c.awayExpG = Dec(160)}
      Fields == {"homeExpG", "awayExpG", "homeExpC", "awayExpC"}
  IN Valid \cup {[c EXCEPT ![f] = x] : c \in Base, f \in Fields, x \in InvalidRates}

NoCall ==
  [homeExpG |-> None, awayExpG |-> None, homeExpC |-> None, awayExpC |-> None,
   isTeamYHome |-> TRUE, iterations |-> 0]

NoIter ==
  [h1_home |-> 0, h1_away |-> 0, h2_home |-> 0, h2_away |-> 0,
   corners |-> 0, success |-> FALSE]

NoPois == [lambda |-> None, val |-> 0, draws |-> 0]

NoResponse == [status |-> 0, body |-> <<>>]

\* The numbers of rows the query returns in the model.
BatchSizes == (0..SmallBatch) \cup (MaxResults..MaxBatch)

Init ==
  /\ rng \in [tape : Tapes, calls : {0}]
  /\ pc = "idle"
  /\ pois = NoPois
  /\ call = NoCall
  /\ i = 0
  /\ successCount = 0
  /\ iter = NoIter
  /\ result = None
  /\ prevResult = None
  /\ runs = 0
  /\ matches = <<>>
  /\ analyzedMatches = <<>>
  /\ locals = <<>>
  /\ res = NoResponse

\* ---------------------------------------------------------------- actions
\* A call poisson(lambda).
PoissonCall ==
  /\ pc = "idle"
  /\ \E lambda \in PoissonRates :
       LET out == poisson(lambda, rng)
       IN /\ pois' = [lambda |-> lambda, val |-> out.val,
                      draws |-> out.rng.calls - rng.calls]
          /\ rng' = out.rng
  /\ pc' = "poisson"
  /\ UNCHANGED <<call, i, successCount, iter, result, prevResult, runs, handlerVars>>

\* A call simulateMatch(...) enters the function: successCount = 0, i = 0.
SimCall ==
  /\ pc = "idle"
  /\ \E c \in SimArgs : call' = c
  /\ pc' = "sim"
  /\ i' = 0
  /\ successCount' = 0
  /\ runs' = 1
  /\ UNCHANGED <<rng, pois, iter, result, prevResult, handlerVars>>

\* One pass of the for loop.
SimIterate ==
  /\ pc = "sim"
  /\ i < call.iterations
  /\ LET b == IterBody(call, rng)
     IN /\ iter' = [h1_home |-> b.h1_home, h1_away |-> b.h1_away,
                    h2_home |-> b.h2_home, h2_away |-> b.h2_away,
                    corners |-> b.corners, success |-> b.success]
        /\ successCount' = IF b.success THEN successCount + 1 ELSE successCount
        /\ rng' = b.rng
  /\ i' = i + 1
  /\ UNCHANGED <<pc, pois, call, result, prevResult, runs, handlerVars>>

\* The loop has ended: return successCount / iterations.
SimReturn ==
  /\ pc = "sim"
  /\ ~(i < call.iterations)
  /\ result' = SimResult(successCount, call.iterations)
  /\ pc' = "simDone"
  /\ UNCHANGED <<rng, pois, call, i, successCount, iter, prevResult, runs, handlerVars>>

\* The same call is made again, with the same arguments.
SimRepeat ==
  /\ pc = "simDone"
  /\ runs = 1
  /\ prevResult' = result
  /\ result' = None
  /\ pc' = "sim"
  /\ i' = 0
  /\ successCount' = 0
  /\ runs' = runs + 1
  /\ UNCHANGED <<rng, pois, call, iter, handlerVars>>

\* GET /api/analysis: the query returns its rows, ordered by date.
Request ==
  /\ pc = "idle"
  /\ \E n \in BatchSizes : matches' = [j \in 1..n |-> j]
  /\ pc' = "map"
  /\ UNCHANGED <<rng, simVars, analyzedMatches, locals, res>>

\* GET /api/analysis: the query throws and the catch block answers 500.
QueryFails ==
  /\ pc = "idle"
  /\ res' = [status |-> 500, body |-> <<>>]
  /\ pc' = "failed"
  /\ UNCHANGED <<rng, simVars, matches, analyzedMatches, locals>>

\* The callback of matches.map for the next row.
AnalyzeMatch ==
  /\ pc = "map"
  /\ Len(analyzedMatches) < Len(matches)
  /\ LET out == AnalyzeOne(matches[Len(analyzedMatches) + 1], rng)
     IN /\ analyzedMatches' = Append(analyzedMatches, out.assessment)
        /\ locals' = Append(locals, out.locals)
        /\ rng' = out.rng
  /\ UNCHANGED <<pc, simVars, matches, res>>

\* The map is over: filter, slice and send.
Respond ==
  /\ pc = "map"
  /\ Len(analyzedMatches) = Len(matches)
  /\ res' = Response(analyzedMatches)
  /\ pc' = "responded"
  /\ UNCHANGED <<rng, simVars, matches, analyzedMatches, locals>>

Next ==
  \/ PoissonCall
  \/ SimCall
  \/ SimIterate
  \/ SimReturn
  \/ SimRepeat
  \/ Request
  \/ QueryFails
  \/ AnalyzeMatch
  \/ Respond

Spec == Init /\ [][Next]_vars

\* ------------------------------------------ the assessment of any outcome
\* The callback of matches.map from the choice of the orientation on, for
\* a row whose two simulations returned home / OddsIterations and
\* away / OddsIterations.
AssessOutcome ==
  /\ pc = "map"
  /\ Len(analyzedMatches) < Len(matches)
  /\ \E home, away \in 0..OddsIterations :
       LET out == Analyzed(matches[Len(analyzedMatches) + 1],
                           [probHomeY |-> SimResult(home, OddsIterations),
                            probAwayY |-> SimResult(away, OddsIterations),
                            rng |-> rng])
       IN /\ analyzedMatches' = Append(analyzedMatches, out.assessment)
          /\ locals' = Append(locals, out.locals)
  /\ UNCHANGED <<rng, pc, simVars, matches, res>>

\* The handler after the query returned one row; the stream is not read.
OddsInit ==
  /\ rng = [tape |-> [j \in 1..Period |-> Fin(0, 1)], calls |-> 0]
  /\ pc = "map"
  /\ pois = NoPois
  /\ call = NoCall
  /\ i = 0
  /\ successCount = 0
  /\ iter = NoIter
  /\ result = None
  /\ prevResult = None
  /\ runs = 0
  /\ matches = <<1>>
  /\ analyzedMatches = <<>>
  /\ locals = <<>>
  /\ res = NoResponse

OddsNext ==
  \/ AssessOutcome
  \/ Respond

\* From the results of the simulations to the response, for every pair of
\* results.
OddsSpec == OddsInit /\ [][OddsNext]_vars

\* ================================================================= claims
\* The four criteria of the latest pass, from the draws kept in iter.
AllFour ==
  /\ 2 * (iter.h1_home + iter.h1_away) < 7
  /\ 2 * (iter.h2_home + iter.h2_away) < 7
  /\ 2 * iter.corners > 11
  /\ IF call.isTeamYHome
     THEN iter.h1_home > iter.h1_away \/ iter.h2_home > iter.h2_away
     ELSE iter.h1_away > iter.h1_home \/ iter.h2_away > iter.h2_home

\* C1: a pass of the loop of simulateMatch adds exactly one to successCount
\* when its draws meet all four criteria (both halves under 3.5 goals, over
\* 5.5 corners, the designated team strictly ahead in a half), and leaves
\* successCount as it was otherwise.
C1_SuccessIffAllFour ==
  [][(pc = "sim" /\ i' = i + 1) =>
       IF AllFour' THEN successCount' = successCount + 1
                   ELSE successCount' = successCount]_vars

\* C1 witness: with the home side designated, two passes are done; the
\* first was not counted and the second, with half 1 drawn and half 2 won by
\* the home side, was.
C1_Witness ==
  /\ pc = "sim"
  /\ i = 2
  /\ successCount = 1
  /\ call.isTeamYHome
  /\ iter.success
  /\ iter.h1_home = iter.h1_away
  /\ iter.h2_home > iter.h2_away

\* C2 as stated: for any iteration count, 0 <= successCount <= passes done
\* throughout the loop, and the value returned is a number in [0,1].
C2_Original ==
  /\ pc \in {"sim", "simDone"} => 0 <= successCount /\ successCount <= i
  /\ pc = "simDone" =>
       /\ IsFinite(result)
       /\ Ge(result, Num(0))
       /\ Ge(Num(1), result)

\* C2 amended: 0 <= successCount <= passes done throughout the loop, and for
\* an iteration count of at least 1 the value returned is
\* successCount / iterations, a number in [0,1].
C2_ProbabilityInUnitInterval ==
  /\ pc \in {"sim", "simDone"} => 0 <= successCount /\ successCount <= i
  /\ (pc = "simDone" /\ call.iterations >= 1) =>
       /\ IsFinite(result)
       /\ Mul(result, Num(call.iterations)) = Num(successCount)
       /\ Ge(result, Num(0))
       /\ Ge(Num(1), result)

\* C2 witness: a call with two passes returned 1/2.
C2_Witness ==
  /\ pc = "simDone"
  /\ call.iterations = 2
  /\ successCount = 1
  /\ result = Fin(1, 2)

\* A rate that is zero, negative or not finite.
InvalidRate(x) == ~IsFinite(x) \/ x.n <= 0

\* The call in progress has four valid rates.
ValidRates ==
  /\ ~InvalidRate(call.homeExpG)
  /\ ~InvalidRate(call.awayExpG)
  /\ ~InvalidRate(call.homeExpC)
  /\ ~InvalidRate(call.awayExpC)

\* C3: two calls of simulateMatch with the same valid rates, the same
\* orientation and the same iteration count return the same value.
C3_SameArgumentsSameResult ==
  (pc = "simDone" /\ runs = 2 /\ ValidRates /\ call.iterations >= 1)
    => result = prevResult

\* C4: for a rate lambda >= 0, poisson returns a natural number, one less
\* than the number of draws it multiplied in, and for lambda = 0 it returns
\* 0 after exactly one draw.
C4_PoissonCountsDraws ==
  (pc = "poisson" /\ Ge(pois.lambda, Num(0))) =>
    /\ pois.val \in Nat
    /\ pois.val = pois.draws - 1
    /\ (pois.lambda = Num(0) => pois.val = 0 /\ pois.draws = 1)

\* C4 witness: a call with a positive rate that multiplied in six draws and
\* returned 5.
C4_Witness ==
  /\ pc = "poisson"
  /\ Gt(pois.lambda, Num(0))
  /\ pois.draws = 6
  /\ pois.val = 5

\* C5: the reported probability is the larger of probHomeY and probAwayY,
\* isTeamYHome tells which one it is, and on a tie the home orientation is
\* reported.
C5_BestOrientationTieHome ==
  \A j \in 1..Len(analyzedMatches) :
    LET a == analyzedMatches[j]
        l == locals[j]
    IN /\ Ge(a.probModel, l.probHomeY) /\ Ge(a.probModel, l.probAwayY)
       /\ Gt(l.probHomeY, l.probAwayY) => (a.isTeamYHome /\ a.probModel = l.probHomeY)
       /\ Gt(l.probAwayY, l.probHomeY) => (~a.isTeamYHome /\ a.probModel = l.probAwayY)
       /\ l.probHomeY = l.probAwayY => (a.isTeamYHome /\ a.probModel = l.probHomeY)

\* C5 witness: a match whose two simulations returned the same positive
\* probability, reported with the home orientation.
C5_Witness ==
  \E j \in 1..Len(analyzedMatches) :
    /\ locals[j].probHomeY = locals[j].probAwayY
    /\ Gt(locals[j].probHomeY, Num(0))
    /\ analyzedMatches[j].isTeamYHome

\* The figures of an assessment that C6 relates.
Figures(a) ==
  [probModel |-> a.probModel, bestOdd |-> a.bestOdd,
   probImplied |-> a.probImplied, edge |-> a.edge, ev |-> a.ev]

\* C6: in every assessment probImplied = 1 / bestOdd,
\* edge = probModel - 1 / bestOdd and ev = probModel * bestOdd - 1, with the
\* bestOdd and the probModel the assessment reports.
C6_EdgeAndEvFromBestOdd ==
  \A a \in {Figures(analyzedMatches[j]) : j \in 1..Len(analyzedMatches)} :
    /\ a.probImplied = DivD(OneD, a.bestOdd)
    /\ a.edge = SubD(Double(a.probModel), DivD(OneD, a.bestOdd))
    /\ a.ev = SubD(MulD(Double(a.probModel), a.bestOdd), OneD)

\* C6 witness: an assessment with probModel 1/2 and bestOdd 11/4, hence
\* probImplied 4/11, edge 3/22 and ev 3/8 (the doubles nearest to them).
C6_Witness ==
  \E j \in 1..Len(analyzedMatches) :
    /\ analyzedMatches[j].probModel = Fin(1, 2)
    /\ analyzedMatches[j].bestOdd = D(11, 4)
    /\ analyzedMatches[j].probImplied = D(4, 11)
    /\ analyzedMatches[j].edge = D(3, 22)
    /\ analyzedMatches[j].ev = D(3, 8)

\* C7: no assessment carries odds that are non-finite or at most 1, nor a
\* non-finite implied probability, edge or EV.
C7_NoInfiniteOrNaNValues ==
  \A j \in 1..Len(analyzedMatches) :
    LET a == analyzedMatches[j]
    IN /\ IsFinite(a.bestOdd)
       /\ GtD(a.bestOdd, OneD)
       /\ IsFinite(a.probImplied)
       /\ IsFinite(a.edge)
       /\ IsFinite(a.ev)

\* C8: a simulateMatch call with a zero, negative or non-finite rate runs no
\* pass of the loop and returns no probability.
C8_InvalidRateNotSimulated ==
  (pc \in {"sim", "simDone"} /\ ~ValidRates) => (i = 0 /\ ~IsFinite(result))

\* C9: the body of the response is the assessments with ev > 0, in the order
\* of the rows, cut after the first 50: at most 50 entries, none with
\* ev <= 0.
C9_PositiveEvFirstFifty ==
  pc = "responded" =>
    LET pos == {j \in 1..Len(analyzedMatches) : GtD(analyzedMatches[j].ev, ZeroD)}
        n == IF Cardinality(pos) < 50 THEN Cardinality(pos) ELSE 50
        Kth(k) == CHOOSE j \in pos : Cardinality({x \in pos : x <= j}) = k
    IN /\ Len(res.body) = n
       /\ Len(res.body) <= 50
       /\ \A k \in 1..Len(res.body) :
            /\ GtD(res.body[k].ev, ZeroD)
            /\ res.body[k] = analyzedMatches[Kth(k)]

\* C9 witness: 51 rows were analysed and the response carries 50 entries.
C9_Witness ==
  /\ pc = "responded"
  /\ Len(analyzedMatches) = 51
  /\ Len(res.body) = 50

\* The analysis of a match failed: its probability is 0, so its odds are
\* infinite and its EV is NaN.
Failed(a) == ~IsFinite(a.bestOdd) \/ ~IsFinite(a.ev)

\* C10: a match whose analysis fails does not stop the others: every row is
\* analysed, the request is answered with status 200, and the body is what
\* the batch without the failed matches gives (its assessments in order,
\* up to the cap).
C10_FailedMatchOnlySkipped ==
  pc = "responded" =>
    /\ Len(analyzedMatches) = Len(matches)
    /\ res.status = 200
    /\ res.body = Slice(SelectSeq(analyzedMatches, LAMBDA a : ~Failed(a)), 50)

\* C10 witness: a response with status 200 whose batch has a failed match
\* between two matches that are both in the body.
C10_Witness ==
  /\ pc = "responded"
  /\ res.status = 200
  /\ \E j \in 1..Len(analyzedMatches) :
       /\ Failed(analyzedMatches[j])
       /\ \E k \in 1..Len(res.body) : res.body[k].id < analyzedMatches[j].id
       /\ \E k \in 1..Len(res.body) : res.body[k].id > analyzedMatches[j].id

\* The stream behind Math.random as it was when the request began.
StreamAtStart == [rng EXCEPT !.calls = 0]

\* C11: the assessment of a match does not depend on the matches analysed
\* before it: it is the assessment the same row gets when it is analysed
\* first, on the same generator.
C11_AssessmentIndependentOfOthers ==
  \A j \in 1..Len(analyzedMatches) :
    analyzedMatches[j] = AnalyzeOne(matches[j], StreamAtStart).assessment

\* The assessment a is one of the entries of the response.
Kept(a) == \E k \in 1..Len(res.body) : res.body[k] = a

\* 1.1/0.8 - 1 = 0.375
FixedEv == D(3, 8)

\* The filter keeps a match if and only if its probModel is greater than 0
\* (as long as the cap of 50 does not cut the list).
KeptIffPositive ==
  pc = "responded" =>
    /\ \A k \in 1..Len(res.body) : Gt(res.body[k].probModel, Num(0))
    /\ Len(res.body) < MaxResults =>
         \A j \in 1..Len(analyzedMatches) :
           Kept(analyzedMatches[j])
             <=> Gt(analyzedMatches[j].probModel, Num(0))

\* C12 as stated: every assessment with probModel > 0 has an EV equal to
\* 1.1/0.8 - 1 = 0.375 and a strictly positive edge, and the filter keeps a
\* match if and only if its probModel is greater than 0.
C12_Original ==
  /\ \A j \in 1..Len(analyzedMatches) :
       Gt(analyzedMatches[j].probModel, Num(0)) =>
         /\ analyzedMatches[j].ev = FixedEv
         /\ GtD(analyzedMatches[j].edge, ZeroD)
  /\ KeptIffPositive

\* C12 amended: every assessment with probModel > 0 has an EV within 2^-50
\* of 0.375 (the rounding of the double operations), hence positive, and a
\* strictly positive edge; the EV is positive exactly when probModel is, and
\* the filter keeps a match if and only if its probModel is greater than 0.
C12_EvIndependentOfProbability ==
  /\ \A j \in 1..Len(analyzedMatches) :
       /\ Gt(analyzedMatches[j].probModel, Num(0)) =>
            /\ GeD(analyzedMatches[j].ev, SubD(FixedEv, Pow2D(-50)))
            /\ GeD(AddD(FixedEv, Pow2D(-50)), analyzedMatches[j].ev)
            /\ GtD(analyzedMatches[j].edge, ZeroD)
       /\ GtD(analyzedMatches[j].ev, ZeroD)
            <=> Gt(analyzedMatches[j].probModel, Num(0))
  /\ KeptIffPositive

\* C12 witness: a response that keeps a match of probModel 3/20 whose EV is
\* not 0.375 but 0.375 + 2^-52.
C12_Witness ==
  /\ pc = "responded"
  /\ \E j \in 1..Len(analyzedMatches) :
       /\ analyzedMatches[j].probModel = Fin(3, 20)
       /\ analyzedMatches[j].ev # FixedEv
       /\ analyzedMatches[j].ev = AddD(FixedEv, Pow2D(-52))
       /\ Kept(analyzedMatches[j])

====
